---- MODULE Spec2Model ----
(***************************************************************************)
(* A model of the table-driven JSON decoder of src/src/lib.rs: the entry   *)
(* point parse, the automaton driver parse_ch and the action executor      *)
(* do_action.                                                              *)
(*                                                                         *)
(* Text is a sequence of Unicode code points (a Rust String is a sequence  *)
(* of chars); a byte is a number in 0..255.                                *)
(***************************************************************************)
EXTENDS Integers, Sequences, FiniteSets, TLC

(***************************************************************************)
(* Bounds of the model.                                                    *)
(***************************************************************************)
\* Every byte sequence over Alphabet of at most this length is an input.
MaxLen == 4
\* The longest control stack handed to a driver call on its own.
MaxStack == 2
\* The deepest value stack handed to an executor call on its own.
MaxDepth == 3
\* The longest Raw Accumulator handed to an executor call on its own.
MaxText == 3
\* The longest Escape Accumulator handed to an executor call on its own.
MaxEsc == 5
\* The longest input of a call of parse that follows another.
MaxAgain == 2
\* The lookups of a driver call on its own are counted up to this number.
MaxLookups == 4

(***************************************************************************)
(* Small helpers.                                                          *)
(***************************************************************************)
Min(a, b) == IF a < b THEN a ELSE b

Last(s) == s[Len(s)]

Front(s) == SubSeq(s, 1, Len(s) - 1)

IsPrefix(p, s) == Len(p) <= Len(s) /\ SubSeq(s, 1, Len(p)) = p

\* The position of name n in the sequence of names ns, counted from 0.
IndexOf(ns, n) == (CHOOSE i \in 1..Len(ns) : ns[i] = n) - 1

(***************************************************************************)
(* mod tables: CATCODE, STATES, GOTOS.  lib.rs only declares the module    *)
(* (`mod tables; use tables::{STATES, GOTOS, CATCODE}`); the tables below  *)
(* are written for the grammar of the specification (section 6) in the     *)
(* packed format parse_ch decodes: action half in the high byte, control   *)
(* half in the low byte, 0x80 in the action half asking for a push of      *)
(* GOTOS[state], control half 0xFF asking for a pop.                       *)
(***************************************************************************)
CatNames ==
  << "other", "ws", "lbrack", "rbrack", "lbrace", "rbrace", "colon", "comma",
     "quote", "bslash", "slash", "d19", "zero", "minus", "plus", "dot",
     "a", "e", "E", "f", "l", "n", "r", "s", "t", "u", "ctl" >>

NCats == Len(CatNames)

Cat(n) == IndexOf(CatNames, n)

\* The category name of a byte below 0x7F.
CatNameOf(b) ==
  CASE b \in {32, 9, 10, 13} -> "ws"
    [] b < 32 /\ b \notin {9, 10, 13} -> "ctl"
    [] b = 91 -> "lbrack"
    [] b = 93 -> "rbrack"
    [] b = 123 -> "lbrace"
    [] b = 125 -> "rbrace"
    [] b = 58 -> "colon"
    [] b = 44 -> "comma"
    [] b = 34 -> "quote"
    [] b = 92 -> "bslash"
    [] b = 47 -> "slash"
    [] b \in 49..57 -> "d19"
    [] b = 48 -> "zero"
    [] b = 45 -> "minus"
    [] b = 43 -> "plus"
    [] b = 46 -> "dot"
    [] b = 97 -> "a"
    [] b = 101 -> "e"
    [] b = 69 -> "E"
    [] b = 102 -> "f"
    [] b = 108 -> "l"
    [] b = 110 -> "n"
    [] b = 114 -> "r"
    [] b = 115 -> "s"
    [] b = 116 -> "t"
    [] b = 117 -> "u"
    [] OTHER -> "other"

\* CATCODE has one entry per byte 0..0x7E.
CATCODE == [b \in 0..126 |-> Cat(CatNameOf(b))]

\* The rows of STATES.  The rows after "NL3" belong to no grammar position:
\* they hold one entry of every shape the packed code can take (an action
\* half of 0xFF alone, a push that is popped again, an action identifier
\* outside 1..14, a reduction cycle) and no grammar row leads to them.
StateNames ==
  << "V0", "L0", "LA", "L1", "L2",
     "O0", "OK", "OV", "OS", "O1", "O2",
     "DN",
     "S", "ESC", "U1", "U2", "U3", "U4", "U5",
     "N0", "Z", "N1", "F0", "F1", "E0", "E1", "E2",
     "T1", "T2", "T3", "FA1", "FA2", "FA3", "FA4", "NL1", "NL2", "NL3",
     "PA", "PB", "PC" >>

NStates == Len(StateNames)

St(n) == IndexOf(StateNames, n)

Pack(action, code) == action * 256 + code

\* Consume the byte: run action a (0: none), go to state n.
Shift(a, n) == Pack(a, St(n))

\* Push GOTOS[state], run action a, consume the byte, go to state n.
PushShift(a, n) == Pack(128 + a, St(n))

\* Run action a, pop the control stack, look the same byte up again.
Reduce(a) == Pack(a, 255)

\* The sentinel: both halves 0xFF.
Bad == Pack(255, 255)

\* The entries that start a value, shared by the rows that expect one.
ValueStart(c) ==
  CASE c = "lbrack" -> PushShift(1, "L0")
    [] c = "lbrace" -> PushShift(2, "O0")
    [] c = "quote" -> PushShift(0, "S")
    [] c = "d19" -> PushShift(11, "N1")
    [] c = "zero" -> PushShift(11, "Z")
    [] c = "minus" -> PushShift(11, "N0")
    [] c = "t" -> PushShift(0, "T1")
    [] c = "f" -> PushShift(0, "FA1")
    [] c = "n" -> PushShift(0, "NL1")
    [] OTHER -> Bad

\* One keyword letter: in state s, category c goes on to state n.
Letter(c, want, a, n) == IF c = want THEN Shift(a, n) ELSE Bad

\* The entry of row s (a state name) for category c (a category name); k is
\* the category's number.
Entry(s, c, k) ==
  CASE s \in {"V0", "L2", "OV"} -> IF c = "ws" THEN Shift(0, s) ELSE ValueStart(c)
    [] s = "L0" -> CASE c = "ws" -> Shift(0, "L0")
                     [] c = "rbrack" -> Shift(0, "DN")
                     [] OTHER -> ValueStart(c)
    [] s = "LA" -> CASE c = "ws" -> Shift(3, "L1")
                     [] c = "comma" -> Shift(3, "L2")
                     [] c = "rbrack" -> Shift(3, "DN")
                     [] OTHER -> Bad
    [] s = "L1" -> CASE c = "ws" -> Shift(0, "L1")
                     [] c = "comma" -> Shift(0, "L2")
                     [] c = "rbrack" -> Shift(0, "DN")
                     [] OTHER -> Bad
    [] s = "O0" -> CASE c = "ws" -> Shift(0, "O0")
                     [] c = "quote" -> PushShift(0, "S")
                     [] c = "rbrace" -> Shift(0, "DN")
                     [] OTHER -> Bad
    [] s = "OK" -> CASE c = "ws" -> Shift(0, "OK")
                     [] c = "colon" -> Shift(0, "OV")
                     [] OTHER -> Bad
    [] s = "OS" -> CASE c = "ws" -> Shift(4, "O1")
                     [] c = "comma" -> Shift(4, "O2")
                     [] c = "rbrace" -> Shift(4, "DN")
                     [] OTHER -> Bad
    [] s = "O1" -> CASE c = "ws" -> Shift(0, "O1")
                     [] c = "comma" -> Shift(0, "O2")
                     [] c = "rbrace" -> Shift(0, "DN")
                     [] OTHER -> Bad
    [] s = "O2" -> CASE c = "ws" -> Shift(0, "O2")
                     [] c = "quote" -> PushShift(0, "S")
                     [] OTHER -> Bad
    [] s = "DN" -> Reduce(0)
    [] s = "S" -> CASE c = "quote" -> Shift(8, "DN")
                    [] c = "bslash" -> Shift(0, "ESC")
                    [] c = "ctl" -> Bad
                    [] OTHER -> Shift(11, "S")
    [] s = "ESC" -> CASE c \in {"quote", "bslash", "slash"} -> Shift(11, "S")
                      [] c = "u" -> PushShift(0, "U1")
                      [] c = "ctl" -> Bad
                      [] OTHER -> Shift(13, "S")
    [] s = "U1" -> Shift(12, "U2")
    [] s = "U2" -> Shift(12, "U3")
    [] s = "U3" -> Shift(12, "U4")
    [] s = "U4" -> Shift(12, "U5")
    [] s = "U5" -> Reduce(14)
    [] s = "N0" -> CASE c = "zero" -> Shift(11, "Z")
                     [] c = "d19" -> Shift(11, "N1")
                     [] OTHER -> Bad
    [] s = "Z" -> CASE c = "dot" -> Shift(11, "F0")
                    [] c \in {"e", "E"} -> Shift(11, "E0")
                    [] c \in {"zero", "d19"} -> Bad
                    [] OTHER -> Reduce(9)
    [] s = "N1" -> CASE c \in {"zero", "d19"} -> Shift(11, "N1")
                     [] c = "dot" -> Shift(11, "F0")
                     [] c \in {"e", "E"} -> Shift(11, "E0")
                     [] OTHER -> Reduce(9)
    [] s = "F0" -> IF c \in {"zero", "d19"} THEN Shift(11, "F1") ELSE Bad
    [] s = "F1" -> CASE c \in {"zero", "d19"} -> Shift(11, "F1")
                     [] c \in {"e", "E"} -> Shift(11, "E0")
                     [] OTHER -> Reduce(10)
    [] s = "E0" -> CASE c \in {"zero", "d19"} -> Shift(11, "E2")
                     [] c \in {"plus", "minus"} -> Shift(11, "E1")
                     [] OTHER -> Bad
    [] s = "E1" -> IF c \in {"zero", "d19"} THEN Shift(11, "E2") ELSE Bad
    [] s = "E2" -> IF c \in {"zero", "d19"} THEN Shift(11, "E2") ELSE Reduce(10)
    [] s = "T1" -> Letter(c, "r", 0, "T2")
    [] s = "T2" -> Letter(c, "u", 0, "T3")
    [] s = "T3" -> Letter(c, "e", 6, "DN")
    [] s = "FA1" -> Letter(c, "a", 0, "FA2")
    [] s = "FA2" -> Letter(c, "l", 0, "FA3")
    [] s = "FA3" -> Letter(c, "s", 0, "FA4")
    [] s = "FA4" -> Letter(c, "e", 7, "DN")
    [] s = "NL1" -> Letter(c, "u", 0, "NL2")
    [] s = "NL2" -> Letter(c, "l", 0, "NL3")
    [] s = "NL3" -> Letter(c, "l", 5, "DN")
    \* "PA": category k runs action k and consumes the byte (k = 15: an
    \* identifier do_action does not know); the last categories hold an
    \* action half of 0xFF beside a state, and the sentinel.
    [] s = "PA" -> CASE k = 0 -> Reduce(0)
                     [] k \in 1..15 -> Shift(k, "PA")
                     [] k = 16 -> Pack(255, St("PA"))
                     [] k = 17 -> Pack(127, 255)
                     [] k = 18 -> Pack(0, St("PC"))
                     [] OTHER -> Bad
    \* "PB": pushes; up to category 14 the push is popped again after
    \* action k, above it the byte is consumed after action k - 15.
    [] s = "PB" -> CASE k \in 0..14 -> Pack(128 + k, 255)
                     [] k = 26 -> Pack(255, St("PA"))
                     [] OTHER -> PushShift(k - 15, "PA")
    \* "PC": GOTOS["PC"] = "PC", so its push-and-pop entry is a reduction
    \* cycle of length 1.
    [] s = "PC" -> CASE k = 0 -> Pack(128, 255)
                     [] k = 1 -> Shift(0, "PC")
                     [] k = 2 -> PushShift(0, "PC")
                     [] OTHER -> Reduce(0)

STATES ==
  [s \in 0..(NStates - 1) |->
     [c \in 0..(NCats - 1) |-> Entry(StateNames[s + 1], CatNames[c + 1], c)]]

\* The state a push in row s saves: where to go on once the construct that
\* starts there is complete.
GotoName(s) ==
  CASE s = "V0" -> "V0"
    [] s \in {"L0", "L2"} -> "LA"
    [] s \in {"O0", "O2"} -> "OK"
    [] s = "OV" -> "OS"
    [] s = "ESC" -> "S"
    [] s = "PB" -> "PA"
    [] s = "PC" -> "PC"
    [] OTHER -> "V0"

GOTOS == [s \in 0..(NStates - 1) |-> St(GotoName(StateNames[s + 1]))]

(***************************************************************************)
(* enum Value and enum JsonError.                                          *)
(* An Int is kept as sign and decimal magnitude (digits 0..9, no leading   *)
(* zero), so that the 64-bit range is exact; a Float is kept as the text   *)
(* it was parsed from.  An Object is a function from its keys to values.   *)
(***************************************************************************)
Null == [t |-> "Null"]

BoolV(b) == [t |-> "Bool", b |-> b]

IntV(neg, mag) == [t |-> "Int", neg |-> neg, mag |-> mag]

FloatV(text) == [t |-> "Float", text |-> text]

StringV(s) == [t |-> "String", s |-> s]

ListV(l) == [t |-> "List", l |-> l]

ObjectV(o) == [t |-> "Object", o |-> o]

NoErr == [kind |-> "None"]

Truncated == [kind |-> "Truncated"]

NoObjects == [kind |-> "NoObjects"]

MultipleObjects == [kind |-> "MultipleObjects"]

Syntax == [kind |-> "Syntax"]

InvalidEscape(text) == [kind |-> "InvalidEscape", text |-> text]

IOErr == [kind |-> "IO"]

\* BTreeMap::insert: the binding for k is replaced, the others are kept.
MapInsert(o, k, v) == [x \in (DOMAIN o) \cup {k} |-> IF x = k THEN v ELSE o[x]]

(***************************************************************************)
(* Conversions of the standard library that do_action calls.               *)
(***************************************************************************)
IsDigit(c) == c \in 48..57

\* format!("{}", ch) for ch: u8 is the decimal numeral of the byte.
DecStr(n) ==
  IF n < 10 THEN << 48 + n >>
  ELSE IF n < 100 THEN << 48 + (n \div 10), 48 + (n % 10) >>
  ELSE << 48 + (n \div 100), 48 + ((n \div 10) % 10), 48 + (n % 10) >>

RECURSIVE StripZeros(_)
StripZeros(d) ==
  IF Len(d) > 1 /\ d[1] = 0 THEN StripZeros(Tail(d)) ELSE d

\* a > b for two magnitudes without leading zeros.
MagGreater(a, b) ==
  \/ Len(a) > Len(b)
  \/ /\ Len(a) = Len(b)
     /\ \E i \in 1..Len(a) :
          a[i] > b[i] /\ \A j \in 1..(i - 1) : a[j] = b[j]

\* i64::MAX = 9223372036854775807, and the magnitude of i64::MIN.
I64MaxMag == << 9,2,2,3,3,7,2,0,3,6,8,5,4,7,7,5,8,0,7 >>

I64MinMag == << 9,2,2,3,3,7,2,0,3,6,8,5,4,7,7,5,8,0,8 >>

\* str::parse::<i64>: an optional sign, then one or more decimal digits,
\* the value within the 64-bit signed range.
ParseI64(s) ==
  LET signed == Len(s) > 0 /\ s[1] \in {43, 45}
      body == IF signed THEN Tail(s) ELSE s
      neg == signed /\ s[1] = 45
      mag == StripZeros([i \in 1..Len(body) |-> body[i] - 48])
  IN  IF Len(body) = 0 \/ \E i \in 1..Len(body) : ~IsDigit(body[i])
        THEN [ok |-> FALSE]
      ELSE IF MagGreater(mag, IF neg THEN I64MinMag ELSE I64MaxMag)
        THEN [ok |-> FALSE]
      ELSE [ok |-> TRUE, v |-> IntV(neg /\ mag # << 0 >>, mag)]

LowerText(s) == [i \in 1..Len(s) |-> IF s[i] \in 65..90 THEN s[i] + 32 ELSE s[i]]

\* Digits with at most one '.', at least one digit.
IsMantissa(m) ==
  /\ \A i \in 1..Len(m) : IsDigit(m[i]) \/ m[i] = 46
  /\ Cardinality({i \in 1..Len(m) : m[i] = 46}) <= 1
  /\ \E i \in 1..Len(m) : IsDigit(m[i])

IsExponent(x) ==
  LET body == IF Len(x) > 0 /\ x[1] \in {43, 45} THEN Tail(x) ELSE x
  IN  Len(body) > 0 /\ \A i \in 1..Len(body) : IsDigit(body[i])

\* str::parse::<f64> succeeds on: an optional sign, then inf, infinity or
\* nan in any case, or a decimal mantissa with an optional exponent.
IsF64Text(s) ==
  LET body == IF Len(s) > 0 /\ s[1] \in {43, 45} THEN Tail(s) ELSE s
      es == {i \in 1..Len(body) : body[i] \in {101, 69}}
      e == IF es = {} THEN Len(body) + 1 ELSE CHOOSE i \in es : \A j \in es : i <= j
  IN  \/ LowerText(body) \in { << 105, 110, 102 >>, << 110, 97, 110 >>,
                               << 105, 110, 102, 105, 110, 105, 116, 121 >> }
      \/ /\ IsMantissa(SubSeq(body, 1, e - 1))
         /\ e > Len(body) \/ IsExponent(SubSeq(body, e + 1, Len(body)))

\* char::to_digit(16), -1 for a character that is no hexadecimal digit.
HexVal(c) ==
  CASE c \in 48..57 -> c - 48
    [] c \in 97..102 -> c - 87
    [] c \in 65..70 -> c - 55
    [] OTHER -> -1

\* The value of hexadecimal digits d, capped at 0x10000 (out of u16's range).
RECURSIVE HexFold(_, _)
HexFold(d, acc) ==
  IF Len(d) = 0 THEN acc
  ELSE HexFold(Tail(d), Min(acc * 16 + HexVal(d[1]), 65536))

\* u16::from_str_radix(s, 16): an optional '+', then one or more
\* hexadecimal digits, the value at most 0xFFFF.
ParseU16Hex(s) ==
  LET body == IF Len(s) > 0 /\ s[1] = 43 THEN Tail(s) ELSE s
  IN  IF Len(body) = 0 \/ \E i \in 1..Len(body) : HexVal(body[i]) < 0
        THEN [ok |-> FALSE]
      ELSE IF HexFold(body, 0) > 65535 THEN [ok |-> FALSE]
      ELSE [ok |-> TRUE, n |-> HexFold(body, 0)]

\* char::from_u32: every code point but the surrogates D800..DFFF.
IsScalarValue(n) == n \in 0..1114111 /\ n \notin 55296..57343

(***************************************************************************)
(* do_action.  The outcome of one call: tag "ok" (returned Ok(())), "err"  *)
(* (returned Err(err)) or "panic", with the value stack and the two        *)
(* accumulators as the call leaves them.                                   *)
(***************************************************************************)
Outcome(tag, ds, ss, es, err) ==
  [tag |-> tag, ds |-> ds, ss |-> ss, es |-> es, err |-> err]

Ok(ds, ss, es) == Outcome("ok", ds, ss, es, NoErr)

Panic(ds, ss, es) == Outcome("panic", ds, ss, es, NoErr)

\* 0x1 .. 0x2, 0x5 .. 0x7: push a container or a literal.
PushValue(v, ds, ss, es) == Ok(Append(ds, v), ss, es)

\* A new top that is no List is reported as a Syntax error.
PopAppend_ReturnsSyntax(ds, ss, es) ==
  IF Len(ds) < 2 THEN Panic(ds, ss, es)
  ELSE LET v == Last(ds)
           rest == Front(ds)
           top == Last(rest)
       IN  IF top.t # "List" THEN Outcome("err", ds, ss, es, Syntax)
           ELSE Ok(Append(Front(rest), ListV(Append(top.l, v))), ss, es)

\* 0x3: pop & append.  pop().unwrap() and last_mut().unwrap() panic on an
\* empty stack, as_list on a top that is no List.
PopAppend(ds, ss, es) ==
  IF Len(ds) < 2 THEN Panic(ds, ss, es)
  ELSE LET v == Last(ds)
           rest == Front(ds)
           top == Last(rest)
       IN  IF top.t # "List" THEN Panic(ds, ss, es)
           ELSE Ok(Append(Front(rest), ListV(Append(top.l, v))), ss, es)

\* A key that is bound already keeps its value.
PopSetItem_FirstWins(ds, ss, es) ==
  IF Len(ds) < 3 THEN Panic(ds, ss, es)
  ELSE LET v == Last(ds)
           k == Last(Front(ds))
           rest == Front(Front(ds))
           top == Last(rest)
       IN  IF top.t # "Object" \/ k.t # "String" THEN Panic(ds, ss, es)
           ELSE IF k.s \in DOMAIN top.o THEN Ok(rest, ss, es)
           ELSE Ok(Append(Front(rest), ObjectV(MapInsert(top.o, k.s, v))), ss, es)

\* 0x4: pop pop & setitem.  as_object panics on a top that is no Object,
\* into_string on a key that is no String.
PopSetItem(ds, ss, es) ==
  IF Len(ds) < 3 THEN Panic(ds, ss, es)
  ELSE LET v == Last(ds)
           k == Last(Front(ds))
           rest == Front(Front(ds))
           top == Last(rest)
       IN  IF top.t # "Object" \/ k.t # "String" THEN Panic(ds, ss, es)
           ELSE Ok(Append(Front(rest), ObjectV(MapInsert(top.o, k.s, v))), ss, es)

\* 0x8: push string.
PushString(ds, ss, es) == Ok(Append(ds, StringV(ss)), << >>, << >>)

\* The value is pushed and the Raw Accumulator keeps its text.
PushInt_KeepsText(ds, ss, es) ==
  IF ParseI64(ss).ok THEN Ok(Append(ds, ParseI64(ss).v), ss, es)
  ELSE Panic(ds, ss, es)

\* 0x9: push int.  unwrap() panics when the text is no i64.
PushInt(ds, ss, es) ==
  IF ParseI64(ss).ok THEN Ok(Append(ds, ParseI64(ss).v), << >>, es)
  ELSE Panic(ds, ss, es)

\* 0xA: push float.
PushFloat(ds, ss, es) ==
  IF IsF64Text(ss) THEN Ok(Append(ds, FloatV(ss)), << >>, es)
  ELSE Panic(ds, ss, es)

\* 0xB: push ch to ss.  `ch as char` is the code point of the byte's value.
PushChar(ch, ds, ss, es) == Ok(ds, Append(ss, ch), es)

\* 0xC: push ch to es.
PushEscChar(ch, ds, ss, es) == Ok(ds, ss, Append(es, ch))

\* The text of the error of 0xD: format!("\\{}", ch) with ch: u8.
ShortEscapeText(ch) == << 92 >> \o DecStr(ch)

\* 0xD: push escape.
PushEscape(ch, ds, ss, es) ==
  CASE ch = 98 -> Ok(ds, Append(ss, 8), << >>)
    [] ch = 116 -> Ok(ds, Append(ss, 9), << >>)
    [] ch = 110 -> Ok(ds, Append(ss, 10), << >>)
    [] ch = 102 -> Ok(ds, Append(ss, 12), << >>)
    [] ch = 114 -> Ok(ds, Append(ss, 13), << >>)
    [] OTHER -> Outcome("err", ds, ss, es, InvalidEscape(ShortEscapeText(ch)))

\* The Escape Accumulator is cleared on the failing paths as well.
PushUnicode_ClearsOnFailure(ds, ss, es) ==
  LET n == ParseU16Hex(es)
      bad == Outcome("err", ds, ss, << >>, InvalidEscape(<< 92, 117 >> \o es))
  IN  IF ~n.ok THEN bad
      ELSE IF IsScalarValue(n.n) THEN Ok(ds, Append(ss, n.n), << >>)
      ELSE bad

\* 0xE: push unicode code point.  Both failures return before es.clear().
PushUnicode(ds, ss, es) ==
  LET n == ParseU16Hex(es)
      bad == Outcome("err", ds, ss, es, InvalidEscape(<< 92, 117 >> \o es))
  IN  IF ~n.ok THEN bad
      ELSE IF IsScalarValue(n.n) THEN Ok(ds, Append(ss, n.n), << >>)
      ELSE bad

do_action(action, ch, ds, ss, es) ==
  CASE action = 1 -> PushValue(ListV(<< >>), ds, ss, es)
    [] action = 2 -> PushValue(ObjectV(<< >>), ds, ss, es)
    [] action = 3 -> PopAppend(ds, ss, es)
    [] action = 4 -> PopSetItem(ds, ss, es)
    [] action = 5 -> PushValue(Null, ds, ss, es)
    [] action = 6 -> PushValue(BoolV(TRUE), ds, ss, es)
    [] action = 7 -> PushValue(BoolV(FALSE), ds, ss, es)
    [] action = 8 -> PushString(ds, ss, es)
    [] action = 9 -> PushInt(ds, ss, es)
    [] action = 10 -> PushFloat(ds, ss, es)
    [] action = 11 -> PushChar(ch, ds, ss, es)
    [] action = 12 -> PushEscChar(ch, ds, ss, es)
    [] action = 13 -> PushEscape(ch, ds, ss, es)
    [] action = 14 -> PushUnicode(ds, ss, es)
    [] OTHER -> Panic(ds, ss, es)

(***************************************************************************)
(* parse_ch: one pass of its loop, that is one table lookup.               *)
(***************************************************************************)
\* let mut action: u8 = (code >> 8 & 0xFF) as u8;
ActionHalf(code) == (code \div 256) % 256

\* code = code & 0xFF;
ControlHalf(code) == code % 256

\* One half of 0xFF is taken for the sentinel.
IsSentinel_EitherHalf(action, code) == action = 255 \/ code = 255

\* if action == 0xFF && code == 0xFF
IsSentinel(action, code) == action = 255 /\ code = 255

\* The current state is pushed in place of its GOTOS entry.
PushGoto_PushesState(action, state, stack) ==
  IF action >= 128 THEN Append(stack, state) ELSE stack

\* else if action >= 0x80 { stack.push(GOTOS[state as usize]); ... }
PushGoto(action, state, stack) ==
  IF action >= 128 THEN Append(stack, GOTOS[state]) ELSE stack

\* ... action -= 0x80;
StripPush(action) == IF action >= 128 THEN action - 128 ELSE action

\* if action > 0 { try!(do_action(action, ch, ds, ss, es)); }
RunAction(action, ch, ds, ss, es) ==
  IF action > 0 THEN do_action(action, ch, ds, ss, es) ELSE Ok(ds, ss, es)

\* What one lookup leaves: kind "cont" (popped, the loop goes round),
\* "ret" (the byte is consumed, the call returns state), "err" (the call
\* returns err) or "panic"; action and code are the two halves of the entry.
Looked(kind, state, stack, o, err, action, code) ==
  [kind |-> kind, state |-> state, stack |-> stack, ds |-> o.ds, ss |-> o.ss,
   es |-> o.es, err |-> err, action |-> action, code |-> code]

\* The bottom of the control stack is taken in place of its top.
PopOrReturn_PopsBottom(code, state, stack, o, action) ==
  IF code = 255
    THEN IF Len(stack) = 0
           THEN Looked("panic", state, stack, o, NoErr, action, code)
           ELSE Looked("cont", Head(stack), Tail(stack), o, NoErr, action, code)
    ELSE Looked("ret", code, stack, o, NoErr, action, code)

\* The popped state is returned, the loop does not go round.
PopOrReturn_ReturnsPopped(code, state, stack, o, action) ==
  IF code = 255
    THEN IF Len(stack) = 0
           THEN Looked("panic", state, stack, o, NoErr, action, code)
           ELSE Looked("ret", Last(stack), Front(stack), o, NoErr, action, code)
    ELSE Looked("ret", code, stack, o, NoErr, action, code)

\* A pop of the empty control stack is reported as a Syntax error.
PopOrReturn_EmptyIsSyntax(code, state, stack, o, action) ==
  IF code = 255
    THEN IF Len(stack) = 0
           THEN Looked("err", state, stack, o, Syntax, action, code)
           ELSE Looked("cont", Last(stack), Front(stack), o, NoErr, action, code)
    ELSE Looked("ret", code, stack, o, NoErr, action, code)

\* if code == 0xFF { state = stack.pop().unwrap(); } else { return Ok(code) }
PopOrReturn(code, state, stack, o, action) ==
  IF code = 255
    THEN IF Len(stack) = 0
           THEN Looked("panic", state, stack, o, NoErr, action, code)
           ELSE Looked("cont", Last(stack), Front(stack), o, NoErr, action, code)
    ELSE Looked("ret", code, stack, o, NoErr, action, code)

Lookup(state, cat, ch, stack, ds, ss, es) ==
  LET packed == STATES[state][cat]
      action == ActionHalf(packed)
      code == ControlHalf(packed)
      same == Ok(ds, ss, es)
      stack1 == PushGoto(action, state, stack)
      o == RunAction(StripPush(action), ch, ds, ss, es)
  IN  IF state \notin DOMAIN STATES
        THEN Looked("panic", state, stack, same, NoErr, 0, 0)
      ELSE IF IsSentinel(action, code)
        THEN Looked("err", state, stack, same, Syntax, action, code)
      ELSE IF o.tag = "err"
        THEN Looked("err", state, stack1, o, o.err, action, code)
      ELSE IF o.tag = "panic"
        THEN Looked("panic", state, stack1, o, NoErr, action, code)
      ELSE PopOrReturn(code, state, stack1, o, action)

\* The byte is clamped to 0x7D.
CatOf_ClampsLow(b) == CATCODE[Min(b, 125)]

\* let cat = CATCODE[min(ch, 0x7e) as usize];
CatOf(b) == CATCODE[Min(b, 126)]

\* The length of the value stack is looked at before the final state.
Classify_LengthFirst(st, d) ==
  IF Len(d) = 0 THEN NoObjects
  ELSE IF Len(d) = 1 THEN [kind |-> "Ok", value |-> Last(d)]
  ELSE IF st # 0 THEN Truncated
  ELSE MultipleObjects

\* The top of a value stack of any length is returned.
Classify_AnyDepth(st, d) ==
  IF st # 0 THEN Truncated
  ELSE IF Len(d) = 0 THEN NoObjects
  ELSE [kind |-> "Ok", value |-> Last(d)]

\* The first two arms are swapped.
Classify_EmptyTruncated(st, d) ==
  IF st # 0 THEN NoObjects
  ELSE IF Len(d) = 0 THEN Truncated
  ELSE IF Len(d) = 1 THEN [kind |-> "Ok", value |-> Last(d)]
  ELSE MultipleObjects

\* The end of parse: the final state, then the length of the value stack.
Classify(st, d) ==
  IF st # 0 THEN Truncated
  ELSE IF Len(d) = 0 THEN NoObjects
  ELSE IF Len(d) = 1 THEN [kind |-> "Ok", value |-> Last(d)]
  ELSE MultipleObjects

(***************************************************************************)
(* The state of one call of parse.                                         *)
(*   pc      "read": at the head of the loop over input.bytes();           *)
(*           "byte": inside the parse_ch call of the loop body;            *)
(*           "end": inside the parse_ch call made after the loop;          *)
(*           "classify": that call has returned; "done": parse has         *)
(*           returned or panicked.  A driver call on its own goes from     *)
(*           "lookup" to "returned", an executor call from "act" to        *)
(*           "acted".                                                      *)
(*   inp     the bytes the source has yielded so far                       *)
(*   state, stack, ds, ss, es   the locals of parse                        *)
(*   ch, cat the arguments of the current parse_ch call                    *)
(*   result  what parse returned (NoErr while it runs)                     *)
(* History, read by the properties only:                                   *)
(*   calls   one record per parse_ch call made by parse; for a driver call *)
(*           on its own, the one record of its pushes and pops             *)
(*   last    the arguments of the latest lookup or executor call           *)
(*   out     what that lookup or call left                                 *)
(*   raised  the first error an operation returned                         *)
(*   nops    the reads and lookups parse has made; for a driver call on    *)
(*           its own, its lookups counted up to MaxLookups                 *)
(*   trace   the locals after each parse_ch call that returned             *)
(*   ref     an earlier, completed call of parse                           *)
(***************************************************************************)
VARIABLES pc, inp, state, stack, ds, ss, es, ch, cat, result,
          calls, last, out, raised, nops, trace, ref

locals == << state, stack, ds, ss, es >>

vars == << pc, inp, state, stack, ds, ss, es, ch, cat, result,
           calls, last, out, raised, nops, trace, ref >>

\* The bytes short inputs are made of: [ ] { } 1 , " \ n space and 0xE9.
Alphabet == {91, 93, 123, 125, 49, 44, 34, 92, 110, 32, 233}

\* Longer inputs, read byte by byte like the short ones.
Docs ==
  {
    \* {"a":1,"a":2}
    << 123, 34, 97, 34, 58, 49, 44, 34, 97, 34, 58, 50, 125 >>,
    \* {}{}
    << 123, 125, 123, 125 >>,
    \* {,}
    << 123, 44, 125 >>,
    \* "\q"
    << 34, 92, 113, 34 >>,
    \* "\u00
    << 34, 92, 117, 48, 48 >>,
    \* "\u0041"
    << 34, 92, 117, 48, 48, 52, 49, 34 >>,
    \* "\ud800"
    << 34, 92, 117, 100, 56, 48, 48, 34 >>,
    \* [1,[2.5e1,true]]
    << 91, 49, 44, 91, 50, 46, 53, 101, 49, 44, 116, 114, 117, 101, 93, 93 >>,
    \* [false,null]
    << 91, 102, 97, 108, 115, 101, 44, 110, 117, 108, 108, 93 >>,
    \* {"k":[-0]}
    << 123, 34, 107, 34, 58, 91, 45, 48, 93, 125 >>
  }

\* The bytes the source may yield next.
NextBytes ==
  {b \in Alphabet : Len(inp) < MaxLen}
    \cup {d[Len(inp) + 1] : d \in {x \in Docs : IsPrefix(inp, x) /\ Len(x) > Len(inp)}}

NoLookup == [kind |-> "none"]

PanicResult == [kind |-> "Panic"]

Args(st, c, b, stk, d, s, e) ==
  [state |-> st, cat |-> c, ch |-> b, stack |-> stk, ds |-> d, ss |-> s, es |-> e]

Snapshot(st, stk, d, s, e) ==
  [state |-> st, stack |-> stk, ds |-> d, ss |-> s, es |-> e]

\* let mut stack = vec![]; let mut state = 0; let mut ds = vec![]; ...
Init ==
  /\ pc = "read"
  /\ inp = << >>
  /\ state = 0
  /\ stack = << >>
  /\ ds = << >>
  /\ ss = << >>
  /\ es = << >>
  /\ ch = 0
  /\ cat = 0
  /\ result = NoErr
  /\ calls = << >>
  /\ last = NoLookup
  /\ out = NoLookup
  /\ raised = NoErr
  /\ nops = 0
  /\ trace = << >>
  /\ ref = NoLookup

\* The record of a parse_ch call as it starts.
CallRecord(c, b, isEnd) ==
  [cat |-> c, ch |-> b, end |-> isEnd, start |-> state,
   fresh |-> (stack = << >> /\ ds = << >> /\ ss = << >> /\ es = << >>),
   ret |-> -1]

\* A failed read or driver call is passed over and the loop goes on.
Propagate_Ignored(e) == pc' = "read" /\ result' = result

\* try!(...): on Err(e), parse returns Err(e) at once.
Propagate(e) == pc' = "done" /\ result' = e

\* input.bytes() yields Some(Ok(ch)): the loop body calls parse_ch.
ReadByte ==
  /\ pc = "read"
  /\ \E b \in NextBytes :
       /\ inp' = Append(inp, b)
       /\ ch' = b
       /\ cat' = CatOf(b)
       /\ calls' = Append(calls, CallRecord(CatOf(b), b, FALSE))
  /\ pc' = "byte"
  /\ nops' = nops + 1
  /\ UNCHANGED << locals, result, last, out, raised, trace, ref >>

\* input.bytes() yields Some(Err(e)): try! returns Err(JsonError::IO(e)).
ReadFail ==
  /\ pc = "read"
  /\ Propagate(IOErr)
  /\ raised' = IOErr
  /\ nops' = nops + 1
  /\ UNCHANGED << inp, locals, ch, cat, calls, last, out, trace, ref >>

\* The end step takes the category of the byte it passes, '?'.
EndOfInput_CategoryOfCh ==
  /\ pc = "read"
  /\ pc' = "end"
  /\ ch' = 63
  /\ cat' = CatOf(63)
  /\ calls' = Append(calls, CallRecord(CatOf(63), 63, TRUE))
  /\ nops' = nops + 1
  /\ UNCHANGED << inp, locals, result, last, out, raised, trace, ref >>

\* input.bytes() yields None: parse_ch(CATCODE[32], '?' as u8, ...).
EndOfInput ==
  /\ pc = "read"
  /\ pc' = "end"
  /\ ch' = 63
  /\ cat' = CATCODE[32]
  /\ calls' = Append(calls, CallRecord(CATCODE[32], 63, TRUE))
  /\ nops' = nops + 1
  /\ UNCHANGED << inp, locals, result, last, out, raised, trace, ref >>

\* The locals after a lookup.
Keep(r) ==
  /\ state' = r.state
  /\ stack' = r.stack
  /\ ds' = r.ds
  /\ ss' = r.ss
  /\ es' = r.es

\* One lookup of the parse_ch call parse is in, and, when the call ends
\* there, parse's `state = try!(...)`.
Drive ==
  /\ pc \in {"byte", "end"}
  /\ LET r == Lookup(state, cat, ch, stack, ds, ss, es)
     IN  /\ last' = Args(state, cat, ch, stack, ds, ss, es)
         /\ out' = r
         /\ Keep(r)
         /\ nops' = nops + 1
         /\ CASE r.kind = "cont" ->
                   UNCHANGED << pc, result, raised, calls, trace >>
              [] r.kind = "ret" ->
                   /\ pc' = IF pc = "end" THEN "classify" ELSE "read"
                   /\ calls' = [calls EXCEPT ![Len(calls)].ret = r.state]
                   /\ trace' = Append(trace, Snapshot(r.state, r.stack, r.ds, r.ss, r.es))
                   /\ UNCHANGED << result, raised >>
              [] r.kind = "err" ->
                   /\ Propagate(r.err)
                   /\ raised' = r.err
                   /\ UNCHANGED << calls, trace >>
              [] r.kind = "panic" ->
                   /\ pc' = "done"
                   /\ result' = PanicResult
                   /\ UNCHANGED << raised, calls, trace >>
  /\ UNCHANGED << inp, ch, cat, ref >>

\* if state != 0 { ... } match ds.len() { ... }; Ok(ds.pop().unwrap()).
Finish ==
  /\ pc = "classify"
  /\ pc' = "done"
  /\ result' = Classify(state, ds)
  /\ ds' = IF Classify(state, ds).kind = "Ok" THEN Front(ds) ELSE ds
  /\ UNCHANGED << inp, state, stack, ss, es, ch, cat, calls, last, out,
                  raised, nops, trace, ref >>

Next == ReadByte \/ ReadFail \/ EndOfInput \/ Drive \/ Finish

Spec == Init /\ [][Next]_vars

(***************************************************************************)
(* parse_ch called on its own (specification SpecCh): the arguments are    *)
(* drawn, the lookups of the one call follow.                              *)
(***************************************************************************)
\* All sequences over S of length at most n.
RECURSIVE SeqsUpTo(_, _)
SeqsUpTo(S, n) ==
  IF n = 0 THEN {<< >>}
  ELSE LET shorter == SeqsUpTo(S, n - 1)
       IN  shorter \cup {Append(q, x) : q \in {y \in shorter : Len(y) = n - 1}, x \in S}

\* One byte of every category, two more letters, a byte above 0x7E.
SampleBytes ==
  {126, 32, 91, 93, 123, 125, 58, 44, 34, 92, 47, 49, 48, 45, 43, 46,
   97, 101, 69, 102, 108, 110, 114, 115, 116, 117, 7, 98, 113, 233}

\* The pairs (cat, ch) parse calls the driver with: a byte with its
\* category, or the end-of-input pair.
DriverInputs ==
  {<< CatOf(b), b >> : b \in SampleBytes} \cup {<< CATCODE[32], 63 >>}

\* States a control stack may hold.
StackStates == {St("V0"), St("LA"), St("PC")}

\* Value stacks and accumulators a driver call may find.
DriverData ==
  { [ds |-> << >>, ss |-> << >>, es |-> << >>],
    [ds |-> << ListV(<< >>), Null >>, ss |-> << 49, 50 >>, es |-> << >>],
    [ds |-> << ObjectV(<< >>), StringV(<< 97 >>), Null >>, ss |-> << 97 >>,
     es |-> << 48, 48, 52, 49 >>],
    [ds |-> << Null >>, ss |-> << 49, 46, 53 >>, es |-> << 43 >>] }

\* The record of a driver call on its own: the depth of the control stack
\* it started with, and how many of its lookups, counted up to MaxLookups,
\* pushed and how many popped without a push.
Tally(depth, pushed, reduced) ==
  [depth |-> depth, pushed |-> pushed, reduced |-> reduced]

\* The record t after a lookup that left r.
Tallied(t, r) ==
  LET push == r.action >= 128 /\ ~IsSentinel(r.action, r.code)
      pop == r.kind = "cont" /\ r.action < 128
  IN  Tally(t.depth,
            IF push THEN Min(t.pushed + 1, MaxLookups) ELSE t.pushed,
            IF pop THEN Min(t.reduced + 1, MaxLookups) ELSE t.reduced)

InitCh ==
  /\ pc = "lookup"
  /\ inp = << >>
  /\ state \in DOMAIN STATES
  /\ \E p \in DriverInputs : cat = p[1] /\ ch = p[2]
  /\ stack \in SeqsUpTo(StackStates, MaxStack)
  /\ \E d \in DriverData : ds = d.ds /\ ss = d.ss /\ es = d.es
  /\ result = NoErr
  /\ calls = << Tally(Len(stack), 0, 0) >>
  /\ last = NoLookup
  /\ out = NoLookup
  /\ raised = NoErr
  /\ nops = 0
  /\ trace = << >>
  /\ ref = NoLookup

\* One lookup of the call; the call ends when the byte is consumed, on an
\* error and on a panic.  nops counts the lookups, and stays at MaxLookups;
\* calls holds the record of this one call.
DriverLookup ==
  /\ pc = "lookup"
  /\ LET r == Lookup(state, cat, ch, stack, ds, ss, es)
     IN  /\ last' = Args(state, cat, ch, stack, ds, ss, es)
         /\ out' = r
         /\ Keep(r)
         /\ pc' = CASE r.kind = "cont" -> "lookup"
                    [] r.kind = "ret" -> "returned"
                    [] OTHER -> "done"
         /\ result' = CASE r.kind = "err" -> r.err
                        [] r.kind = "panic" -> PanicResult
                        [] OTHER -> result
         /\ raised' = IF r.kind = "err" THEN r.err ELSE raised
         /\ calls' = << Tallied(calls[1], r) >>
  /\ nops' = Min(nops + 1, MaxLookups)
  /\ UNCHANGED << inp, ch, cat, trace, ref >>

NextCh == DriverLookup

SpecCh == InitCh /\ [][NextCh]_vars

\* The driver calls that start from the empty and from the fullest of the
\* drawn value stacks.
InitLoop == InitCh /\ Len(ds) \in {0, 3}

\* The loop of parse_ch is sequential code: while a lookup remains to be
\* made, it is made.
SpecLoop == InitLoop /\ [][NextCh]_vars /\ WF_vars(DriverLookup)

(***************************************************************************)
(* do_action called on its own (specification SpecAct): the arguments are  *)
(* drawn, the one call follows.                                            *)
(***************************************************************************)
SampleValues ==
  { Null, IntV(FALSE, << 1 >>), StringV(<< 97 >>), StringV(<< 98 >>),
    ListV(<< >>), ListV(<< Null >>), ObjectV(<< >>),
    ObjectV((<< 97 >> :> IntV(FALSE, << 1 >>)) @@ (<< 99 >> :> Null)) }

\* Literal text: - 0 1 9 . e
NumberChars == {45, 48, 49, 57, 46, 101}

\* Digit strings at the ends of the 64-bit range, and beyond.
LongTexts ==
  { << 57,50,50,51,51,55,50,48,51,54,56,53,52,55,55,53,56,48,55 >>,
    << 57,50,50,51,51,55,50,48,51,54,56,53,52,55,55,53,56,48,56 >>,
    << 45,57,50,50,51,51,55,50,48,51,54,56,53,52,55,55,53,56,48,56 >>,
    << 45,57,50,50,51,51,55,50,48,51,54,56,53,52,55,55,53,56,48,57 >>,
    << 48,48,48,48,48,48,48,48,48,48,48,48,48,48,48,48,48,48,48,49 >> }

\* Escape text: 0 4 d 8 g +
EscapeChars == {48, 52, 100, 56, 103, 43}

\* The arguments drawn for action identifier a: what the action reads is
\* drawn widely, the rest from two or three values.
ActArgs(a) ==
  LET few == {<< >>, << 97 >>}
      fewEs == {<< >>, << 48, 48, 101, 57 >>}
  IN  CASE a \in {11, 12, 13} ->
             { [ch |-> b, ds |-> d, ss |-> s, es |-> e] :
                 b \in 0..255, d \in {<< >>, << Null >>}, s \in few, e \in fewEs }
        [] a \in {8, 9, 10} ->
             { [ch |-> 63, ds |-> d, ss |-> s, es |-> e] :
                 d \in SeqsUpTo({Null, ListV(<< >>)}, 1),
                 s \in SeqsUpTo(NumberChars, MaxText) \cup LongTexts, e \in fewEs }
        [] a = 14 ->
             { [ch |-> 63, ds |-> d, ss |-> s, es |-> e] :
                 d \in {<< >>}, s \in few, e \in SeqsUpTo(EscapeChars, MaxEsc) }
        [] OTHER ->
             { [ch |-> 63, ds |-> d, ss |-> s, es |-> e] :
                 d \in SeqsUpTo(SampleValues, MaxDepth), s \in few, e \in fewEs }

InitAct ==
  /\ pc = "act"
  /\ inp = << >>
  /\ state = 0
  /\ stack = << >>
  /\ cat = 0
  /\ \E a \in 0..15 : \E x \in ActArgs(a) :
       /\ ch = x.ch
       /\ ds = x.ds
       /\ ss = x.ss
       /\ es = x.es
       /\ last = [action |-> a, ch |-> x.ch, ds |-> x.ds, ss |-> x.ss, es |-> x.es]
  /\ result = NoErr
  /\ calls = << >>
  /\ out = NoLookup
  /\ raised = NoErr
  /\ nops = 0
  /\ trace = << >>
  /\ ref = NoLookup

\* The call do_action(action, ch, ds, ss, es).
Execute ==
  /\ pc = "act"
  /\ LET o == do_action(last.action, ch, ds, ss, es)
     IN  /\ out' = o
         /\ ds' = o.ds
         /\ ss' = o.ss
         /\ es' = o.es
         /\ result' = CASE o.tag = "err" -> o.err
                        [] o.tag = "panic" -> PanicResult
                        [] OTHER -> result
         /\ raised' = o.err
  /\ pc' = "acted"
  /\ UNCHANGED << inp, state, stack, ch, cat, calls, last, nops, trace, ref >>

NextAct == Execute

SpecAct == InitAct /\ [][NextAct]_vars

(***************************************************************************)
(* Calls of parse one after another (specification SpecAgain).  The first  *)
(* call to complete is kept in ref; between marks that a call on another   *)
(* input has completed since.                                              *)
(***************************************************************************)
\* The bytes of the inputs of successive calls: " n [ 1 \
AgainAlphabet == {34, 110, 91, 49, 92}

\* input.bytes() yields Some(Ok(ch)), as in ReadByte.
ReadShort ==
  /\ pc = "read"
  /\ Len(inp) < MaxAgain
  /\ \E b \in AgainAlphabet :
       /\ inp' = Append(inp, b)
       /\ ch' = b
       /\ cat' = CatOf(b)
       /\ calls' = Append(calls, CallRecord(CatOf(b), b, FALSE))
  /\ pc' = "byte"
  /\ nops' = nops + 1
  /\ UNCHANGED << locals, result, last, out, raised, trace, ref >>

\* The call that has just completed, as ref is to keep it.
Completed ==
  IF ref = NoLookup
    THEN [kind |-> "call", inp |-> inp, trace |-> trace, result |-> result,
          between |-> FALSE]
    ELSE [ref EXCEPT !.between = @ \/ inp # ref.inp]

\* The Raw Accumulator outlives the call, as a static buffer would.
Call_KeepsAccumulator ==
  /\ pc = "done"
  /\ result # PanicResult
  /\ ref' = Completed
  /\ pc' = "read"
  /\ inp' = << >>
  /\ state' = 0
  /\ stack' = << >>
  /\ ds' = << >>
  /\ es' = << >>
  /\ result' = NoErr
  /\ calls' = << >>
  /\ last' = NoLookup
  /\ out' = NoLookup
  /\ raised' = NoErr
  /\ nops' = 0
  /\ trace' = << >>
  /\ ch' = 0
  /\ cat' = 0
  /\ UNCHANGED ss

\* parse is called again once a call has returned: its locals are made
\* anew (let mut stack = vec![]; let mut state = 0; ...).
Call ==
  /\ pc = "done"
  /\ result # PanicResult
  /\ ref' = Completed
  /\ pc' = "read"
  /\ inp' = << >>
  /\ state' = 0
  /\ stack' = << >>
  /\ ds' = << >>
  /\ ss' = << >>
  /\ es' = << >>
  /\ result' = NoErr
  /\ calls' = << >>
  /\ last' = NoLookup
  /\ out' = NoLookup
  /\ raised' = NoErr
  /\ nops' = 0
  /\ trace' = << >>
  /\ ch' = 0
  /\ cat' = 0

NextAgain == ReadShort \/ ReadFail \/ EndOfInput \/ Drive \/ Finish \/ Call

SpecAgain == Init /\ [][NextAgain]_vars

(***************************************************************************)
(* Properties of parse (specification Spec).                               *)
(***************************************************************************)
\* parse made its end-of-input call and that call returned a state.
EndStepReturned ==
  /\ pc \in {"classify", "done"}
  /\ Len(calls) > 0
  /\ Last(calls).end
  /\ Last(calls).ret # -1

\* The locals as the end-of-input call left them.
Final == Last(trace)

\* C1: once every byte and the end-of-input step went through without
\* error, a final state other than 0 gives Truncated whatever the value
\* stack holds; with final state 0, a value stack of 0 elements gives
\* NoObjects, of 1 element success with that element, of 2 or more
\* MultipleObjects.
C1_Classification ==
  (pc = "done" /\ EndStepReturned) =>
    /\ Final.state # 0 => result = Truncated
    /\ (Final.state = 0 /\ Len(Final.ds) = 0) => result = NoObjects
    /\ (Final.state = 0 /\ Len(Final.ds) = 1) =>
         result = [kind |-> "Ok", value |-> Final.ds[1]]
    /\ (Final.state = 0 /\ Len(Final.ds) >= 2) => result = MultipleObjects

C1_Witness ==
  /\ pc = "done"
  /\ EndStepReturned
  /\ Final.state = 0
  /\ Len(Final.ds) = 1
  /\ result.kind = "Ok"
  /\ Len(inp) > 0

\* C2 as stated: at completion the value stack holds exactly one element
\* if and only if parse returns success.
C2_OneElementIffSuccess ==
  (pc = "done" /\ EndStepReturned) =>
    (Len(Final.ds) = 1 <=> result.kind = "Ok")

\* C2, amended: parse returns success if and only if the final state is 0
\* and the value stack holds exactly one element; a run that ends with one
\* element in another state returns Truncated.
C2_SuccessIffAcceptedOneElement ==
  (pc = "done" /\ EndStepReturned) =>
    /\ result.kind = "Ok" <=> (Final.state = 0 /\ Len(Final.ds) = 1)
    /\ (Len(Final.ds) = 1 /\ Final.state # 0) => result = Truncated

C2_Witness ==
  /\ pc = "done"
  /\ EndStepReturned
  /\ Len(Final.ds) = 1
  /\ Final.state # 0
  /\ result = Truncated

\* C3: an error returned by a read or by a driver call (IO, Syntax,
\* InvalidEscape) is what parse returns, and from then on nothing is read,
\* no lookup or action runs and no end-of-input call is made.
C3_ErrorsAbort ==
  /\ [](raised # NoErr => (pc = "done" /\ result = raised))
  /\ [][raised # NoErr => UNCHANGED << inp, nops, calls, locals, result >>]_vars

C3_Witness ==
  /\ raised.kind = "InvalidEscape"
  /\ pc = "done"
  /\ result = raised
  /\ ~Last(calls).end

\* C4: in an error-free run over b1..bn the driver is called n+1 times:
\* once per byte in input order, then once for the end of input with the
\* category of byte 32; the first call starts in state 0 with empty stacks
\* and accumulators, each later one in the state the one before returned.
C4_DriverCalls ==
  EndStepReturned =>
    /\ Len(calls) = Len(inp) + 1
    /\ \A i \in 1..Len(inp) : calls[i].ch = inp[i] /\ ~calls[i].end
    /\ calls[Len(inp) + 1].cat = CATCODE[32]
    /\ calls[1].start = 0
    /\ calls[1].fresh
    /\ \A i \in 2..Len(calls) : calls[i].start = calls[i - 1].ret

C4_Witness ==
  /\ EndStepReturned
  /\ Len(inp) = 3
  /\ inp[1] # inp[2]
  /\ calls[Len(calls)].start # 0
  /\ calls[Len(calls)].ret # calls[Len(calls)].start

\* C8: on the empty byte sequence the only step is the end-of-input call,
\* from state 0 with empty stacks; it makes one lookup, returns state 0
\* with an empty value stack, and parse returns NoObjects.
C8_EmptyInput ==
  (pc = "done" /\ inp = << >> /\ result # IOErr) =>
    /\ result = NoObjects
    /\ Len(calls) = 1
    /\ calls[1].end /\ calls[1].start = 0 /\ calls[1].fresh /\ calls[1].ret = 0
    /\ nops = 2
    /\ Final.state = 0 /\ Final.ds = << >> /\ Final.stack = << >>

C8_Witness ==
  pc = "done" /\ inp = << >> /\ result = NoObjects /\ nops = 2

(***************************************************************************)
(* Properties of do_action (specification SpecAct).                        *)
(***************************************************************************)
ShortEscapes == {98, 116, 110, 102, 114}

\* The control character of a short escape: b, t, n, f, r.
ControlOf(b) ==
  CASE b = 98 -> 8 [] b = 116 -> 9 [] b = 110 -> 10 [] b = 102 -> 12 [] b = 114 -> 13

\* C6: action 13 with a byte other than b, t, n, f, r fails with
\* InvalidEscape whose text is the backslash followed by the character of
\* that byte; with b, t, n, f, r it appends 0x08, 0x09, 0x0A, 0x0C, 0x0D
\* to the Raw Accumulator.
C6_ShortEscape ==
  (pc = "acted" /\ last.action = 13) =>
    IF last.ch \in ShortEscapes
      THEN out.tag = "ok" /\ ss = Append(last.ss, ControlOf(last.ch))
      ELSE out.tag = "err" /\ out.err = InvalidEscape(<< 92, last.ch >>)

\* C7: action 4 pops the value v, then the key k (a String), and binds k
\* to v in the Object then on top: an earlier binding for k is replaced,
\* the bindings of other keys are kept, the depth falls by 2, and with a
\* String key over an Object the action never fails.
C7_SetItem ==
  (pc = "acted" /\ last.action = 4) =>
    LET d == last.ds
        n == Len(d)
    IN  /\ out.tag = "ok" <=> (n >= 3 /\ d[n - 1].t = "String" /\ d[n - 2].t = "Object")
        /\ out.tag = "ok" =>
             LET v == d[n]
                 k == d[n - 1].s
                 old == d[n - 2].o
                 new == Last(ds)
             IN  /\ Len(ds) = n - 2
                 /\ SubSeq(ds, 1, n - 3) = SubSeq(d, 1, n - 3)
                 /\ new.t = "Object"
                 /\ DOMAIN new.o = (DOMAIN old) \cup {k}
                 /\ new.o[k] = v
                 /\ \A x \in (DOMAIN old) \ {k} : new.o[x] = old[x]
                 /\ ss = last.ss /\ es = last.es

C7_Witness ==
  /\ pc = "acted"
  /\ last.action = 4
  /\ out.tag = "ok"
  /\ Len(last.ds) = 3
  /\ last.ds[2].s \in DOMAIN last.ds[1].o
  /\ last.ds[1].o[last.ds[2].s] # last.ds[3]
  /\ Last(ds).o[last.ds[2].s] = last.ds[3]
  /\ Cardinality(DOMAIN Last(ds).o) = 2

(***************************************************************************)
(* Properties of parse_ch (specification SpecCh).                          *)
(***************************************************************************)
\* The packed entry the latest lookup read.
LastEntry == STATES[last.state][last.cat]

Looking == out.kind \in {"cont", "ret", "err", "panic"}

\* The latest lookup left the stacks and accumulators as it found them.
LookupChangedNothing ==
  /\ state = last.state
  /\ stack = last.stack
  /\ ds = last.ds
  /\ ss = last.ss
  /\ es = last.es

\* C9: a lookup fails with Syntax exactly when both halves of the packed
\* entry are 0xFF, and then the control stack, the value stack and both
\* accumulators are as before the lookup; an entry with one half of 0xFF
\* is no Syntax error.
C9_SyntaxIffSentinel ==
  Looking =>
    /\ (out.kind = "err" /\ out.err = Syntax) <=> LastEntry = 65535
    /\ LastEntry = 65535 => LookupChangedNothing

C9_Witness ==
  /\ Looking
  /\ out.err = Syntax
  /\ result = Syntax
  /\ stack # << >>
  /\ ds # << >>
  /\ ss # << >>
  /\ es # << >>

\* What the action of a pushing entry leaves: the action half less 0x80
\* is run, none when that is 0.
PushedAction ==
  IF LastEntry \div 256 = 128
    THEN Ok(last.ds, last.ss, last.es)
    ELSE do_action((LastEntry \div 256) - 128, last.ch, last.ds, last.ss, last.es)

\* C10: an entry that is not the sentinel and whose action half is at
\* least 0x80 pushes GOTOS[s] before any action and runs the action half
\* less 0x80.  With control half 0xFF the pushed value is popped again:
\* the next state is GOTOS[s], the control stack is as before and the byte
\* is not consumed; otherwise the pushed value stays, the control half is
\* the state returned and the byte is consumed.
C10_PushingEntry ==
  (Looking /\ LastEntry \div 256 >= 128 /\ LastEntry # 65535) =>
    LET pushed == Append(last.stack, GOTOS[last.state])
        o == PushedAction
    IN  /\ ds = o.ds /\ ss = o.ss /\ es = o.es
        /\ o.tag = "err" => (out.kind = "err" /\ out.err = o.err /\ stack = pushed)
        /\ o.tag = "panic" => out.kind = "panic"
        /\ (o.tag = "ok" /\ LastEntry % 256 = 255) =>
             /\ out.kind = "cont" /\ pc = "lookup"
             /\ state = GOTOS[last.state]
             /\ stack = last.stack
        /\ (o.tag = "ok" /\ LastEntry % 256 # 255) =>
             /\ out.kind = "ret" /\ pc = "returned"
             /\ state = LastEntry % 256
             /\ stack = pushed

C10_Witness ==
  /\ Looking
  /\ LastEntry \div 256 > 128
  /\ LastEntry % 256 = 255
  /\ out.kind = "cont"
  /\ state = GOTOS[last.state]
  /\ state # last.state
  /\ stack = last.stack
  /\ stack # << >>
  /\ ds # last.ds

(***************************************************************************)
(* Properties of successive calls of parse (specification SpecAgain).      *)
(***************************************************************************)
\* The driver calls for bytes that this call and the kept one both made.
SharedCalls ==
  1..Min(Min(Len(trace), Len(inp)), Min(Len(ref.trace), Len(ref.inp)))

\* C5: two calls of parse on the same byte sequence go through the same
\* states, control stacks, value stacks and accumulators and return equal
\* results, whatever calls ran before or in between.
C5_SameInputSameRun ==
  (ref # NoLookup /\ (IsPrefix(inp, ref.inp) \/ IsPrefix(ref.inp, inp))) =>
    /\ \A i \in SharedCalls : trace[i] = ref.trace[i]
    /\ (pc = "done" /\ inp = ref.inp /\ result # IOErr /\ ref.result # IOErr) =>
         (trace = ref.trace /\ result = ref.result)

C5_Witness ==
  /\ ref # NoLookup
  /\ ref.between
  /\ pc = "done"
  /\ inp = ref.inp
  /\ Len(inp) = 2
  /\ result = ref.result
  /\ result = Truncated
  /\ ss # << >>
  /\ stack # << >>

(***************************************************************************)
(* Properties of the loop of parse_ch (specification SpecCh).              *)
(***************************************************************************)
\* What the action of the entry the latest lookup read leaves: the action
\* half without its 0x80 bit is run, none when that is 0.
LastAction ==
  LET a == (LastEntry \div 256) % 128
  IN  IF a = 0 THEN Ok(last.ds, last.ss, last.es)
      ELSE do_action(a, last.ch, last.ds, last.ss, last.es)

\* The control stack of the latest lookup once the entry's push is done.
LastPushed ==
  IF LastEntry \div 256 >= 128
    THEN Append(last.stack, GOTOS[last.state])
    ELSE last.stack

\* The latest lookup went on to its pop or return: the entry is not the
\* sentinel and its action, if any, succeeded.
LastActed == Looking /\ LastEntry # 65535 /\ LastAction.tag = "ok"

\* A lookup that sends the loop round read control half 0xFF: its action
\* ran, then the top of the control stack became the state.
C11_Reduced ==
  (Looking /\ out.kind = "cont") =>
    /\ LastActed
    /\ LastEntry % 256 = 255
    /\ ds = LastAction.ds /\ ss = LastAction.ss /\ es = LastAction.es
    /\ LastPushed # << >>
    /\ state = Last(LastPushed)
    /\ stack = Front(LastPushed)
    /\ pc = "lookup"

\* A lookup that ends the call with a state read a control half other than
\* 0xFF: its action ran, and that half is the state returned.
C11_Consumed ==
  (Looking /\ out.kind = "ret") =>
    /\ LastActed
    /\ LastEntry % 256 # 255
    /\ ds = LastAction.ds /\ ss = LastAction.ss /\ es = LastAction.es
    /\ state = LastEntry % 256
    /\ stack = LastPushed
    /\ pc = "returned"

\* C11: a driver call that returns a state makes its lookups for the same
\* byte and category; every lookup but the last reads control half 0xFF
\* (its action runs, then the top of the control stack is popped and is the
\* state of the next lookup), the last reads another control half (its
\* action runs, that half is the state returned); the byte is consumed by
\* that one lookup, after which the call makes no other.
C11_LookupSequence ==
  /\ [](C11_Reduced /\ C11_Consumed)
  /\ [](LastActed => (out.kind = "ret" <=> LastEntry % 256 # 255))
  /\ [](pc = "lookup" <=> (out = NoLookup \/ out.kind = "cont"))
  /\ [][pc = "lookup" /\ ch' = ch /\ cat' = cat]_vars

\* Two reductions, then the lookup that consumes the byte.
C11_Witness ==
  /\ pc = "returned"
  /\ out.kind = "ret"
  /\ nops = 3
  /\ LastEntry \div 256 # 0
  /\ state = LastEntry % 256
  /\ state # last.state

(***************************************************************************)
(* Termination of the loop of parse_ch (specification SpecLoop).           *)
(***************************************************************************)
\* The entry of state s for category c pushes GOTOS[s] and pops it again.
PushAndPop(s, c) ==
  LET e == STATES[s][c]
  IN  e # 65535 /\ e \div 256 >= 128 /\ e % 256 = 255

\* State t is reached from state s in at most n steps s -> GOTOS[s], each
\* through an entry for category c that pushes and pops.
RECURSIVE Comes(_, _, _, _)
Comes(s, t, c, n) ==
  /\ PushAndPop(s, c)
  /\ GOTOS[s] = t \/ (n > 1 /\ Comes(GOTOS[s], t, c, n - 1))

\* State s lies on a reduction cycle of category c.
OnCycle(s, c) == Comes(s, s, c, NStates)

\* The tables have no reduction cycle for category c.
CycleFree(c) == \A s \in DOMAIN STATES : ~OnCycle(s, c)

\* State s lies on a reduction cycle of category c none of whose entries
\* has an action, so that none can fail.
RECURSIVE NoActionAlong(_, _, _)
NoActionAlong(s, c, n) ==
  /\ STATES[s][c] \div 256 = 128
  /\ n > 1 => NoActionAlong(GOTOS[s], c, n - 1)

QuietCycle(s, c) == OnCycle(s, c) /\ NoActionAlong(s, c, NStates)

\* C12: the loop of one driver call ends for every state, stack and byte
\* when the tables have no reduction cycle for the byte's category; there
\* is no cycle detection, and a call that is on a reduction cycle whose
\* actions do not fail makes lookups for ever: each lookup leaves it on
\* the cycle, with another lookup to make.  (The category of a call does
\* not change, so the first line reads: if CycleFree(cat), the loop ends.)
C12_Termination ==
  /\ <>(pc # "lookup" \/ ~CycleFree(cat))
  /\ [][(pc = "lookup" /\ QuietCycle(state, cat)) =>
          (pc' = "lookup" /\ QuietCycle(state', cat'))]_vars

\* The loop has gone round a reduction cycle MaxLookups times and is where
\* it was.
C12_Witness ==
  /\ pc = "lookup"
  /\ QuietCycle(state, cat)
  /\ nops = MaxLookups
  /\ out.kind = "cont"
  /\ state = last.state
  /\ stack = last.stack

(***************************************************************************)
(* Properties of the escape and scalar actions (specification SpecAct).    *)
(***************************************************************************)
\* Text t is exactly four hexadecimal digits.
FourHexDigits(t) == Len(t) = 4 /\ \A i \in 1..4 : HexVal(t[i]) >= 0

\* The code unit four hexadecimal digits stand for.
CodeUnit(t) ==
  4096 * HexVal(t[1]) + 256 * HexVal(t[2]) + 16 * HexVal(t[3]) + HexVal(t[4])

\* C13: action 14 succeeds only when the Escape Accumulator holds exactly
\* four hexadecimal digits that stand for a valid scalar value, and then
\* appends that character to the Raw Accumulator; for every other content
\* (fewer or more than four characters, a character that is no hexadecimal
\* digit, a surrogate code unit) it fails with InvalidEscape carrying the
\* two characters \u and the accumulated text.
C13_FourHexDigits ==
  (pc = "acted" /\ last.action = 14) =>
    IF FourHexDigits(last.es) /\ IsScalarValue(CodeUnit(last.es))
      THEN out.tag = "ok" /\ ss = Append(last.ss, CodeUnit(last.es))
      ELSE /\ out.tag = "err"
           /\ out.err = InvalidEscape(<< 92, 117 >> \o last.es)
           /\ ss = last.ss

\* The call of action 8, 13 or 14 has finished, normally or with an error.
EscapeResolved ==
  pc = "acted" /\ last.action \in {8, 13, 14} /\ out.tag \in {"ok", "err"}

\* C14 as stated: the Escape Accumulator is empty after action 13 or 14
\* has finished, whether it returned normally or returned InvalidEscape,
\* and after action 8.
C14_ClearedAlways == EscapeResolved => es = << >>

\* C14: the Escape Accumulator is empty after action 8, 13 or 14 has
\* returned normally; when action 13 or 14 returns InvalidEscape the
\* accumulator is as it was before the action.
C14_ClearedOnSuccess ==
  EscapeResolved =>
    /\ out.tag = "ok" => es = << >>
    /\ out.tag = "err" =>
         /\ last.action \in {13, 14}
         /\ out.err.kind = "InvalidEscape"
         /\ es = last.es

\* A \u escape resolved: the accumulated digits are gone.
C14_Witness ==
  /\ EscapeResolved
  /\ last.action = 14
  /\ out.tag = "ok"
  /\ Len(last.es) = 4
  /\ ss = Append(last.ss, CodeUnit(last.es))
  /\ es = << >>

\* The number that decimal digits d, most significant first, stand for.
RECURSIVE Decimal(_)
Decimal(d) == IF d = << >> THEN 0 ELSE 10 * Decimal(Front(d)) + Last(d)

\* The number a short integer literal t stands for.
LiteralValue(t) ==
  LET body == IF t[1] \in {43, 45} THEN Tail(t) ELSE t
      n == Decimal([i \in 1..Len(body) |-> body[i] - 48])
  IN  IF t[1] = 45 THEN 0 - n ELSE n

\* The number an Int value v of few digits holds.
IntValue(v) == IF v.neg THEN 0 - Decimal(v.mag) ELSE Decimal(v.mag)

\* The scalar that action a builds from text t, given the value v it pushed.
BuiltFrom(a, t, v) ==
  CASE a = 8 -> v = StringV(t)
    [] a = 9 -> v.t = "Int" /\ (Len(t) <= MaxText => IntValue(v) = LiteralValue(t))
    [] a = 10 -> v = FloatV(t)

\* C15: after each of actions 8, 9 and 10 the Raw Accumulator is empty and
\* the value stack holds exactly one element more than before, built from
\* the content the accumulator had just before the action; no other action
\* empties the Raw Accumulator.
C15_FlushedIntoScalar ==
  pc = "acted" =>
    /\ (last.action \in {8, 9, 10} /\ out.tag = "ok") =>
         /\ ss = << >>
         /\ Len(ds) = Len(last.ds) + 1
         /\ Front(ds) = last.ds
         /\ BuiltFrom(last.action, last.ss, Last(ds))
    /\ last.action \notin {8, 9, 10} => IsPrefix(last.ss, ss)

\* A negative literal became an Int on top of a value stack that held a
\* value already.
C15_Witness ==
  /\ pc = "acted"
  /\ last.action = 9
  /\ out.tag = "ok"
  /\ last.ss = << 45, 49, 57 >>
  /\ last.ds # << >>
  /\ ss = << >>
  /\ Last(ds) = IntV(TRUE, << 1, 9 >>)
  /\ Len(ds) = 2

\* The bytes a Rust String holds for the char of code point c (UTF-8).
Utf8Char(c) ==
  IF c < 128 THEN << c >>
  ELSE IF c < 2048 THEN << 192 + (c \div 64), 128 + (c % 64) >>
  ELSE IF c < 65536
    THEN << 224 + (c \div 4096), 128 + ((c \div 64) % 64), 128 + (c % 64) >>
  ELSE << 240 + (c \div 262144), 128 + ((c \div 4096) % 64),
          128 + ((c \div 64) % 64), 128 + (c % 64) >>

\* The byte content of text t.
RECURSIVE Utf8(_)
Utf8(t) == IF t = << >> THEN << >> ELSE Utf8Char(Head(t)) \o Utf8(Tail(t))

\* C16: for every byte b in 0..255, action 11 extends the byte content of
\* the Raw Accumulator by exactly the one byte b, the bytes of multi-byte
\* UTF-8 sequences (b >= 0x80) included.
C16_ByteAppended ==
  (pc = "acted" /\ last.action = 11) =>
    /\ out.tag = "ok"
    /\ Utf8(ss) = Utf8(last.ss) \o << last.ch >>

\* Text t is lexically an integer literal: an optional '-', then one or
\* more decimal digits.
IsIntLiteral(t) ==
  LET body == IF Len(t) > 0 /\ t[1] = 45 THEN Tail(t) ELSE t
  IN  Len(body) > 0 /\ \A i \in 1..Len(body) : IsDigit(body[i])

\* C17: whenever the Raw Accumulator holds a lexically valid integer
\* literal, of any length, action 9 does not fail: it pushes an Int and
\* clears the accumulator, also for a digit string whose value lies outside
\* the 64-bit signed range.
C17_IntLiteralDecoded ==
  (pc = "acted" /\ last.action = 9 /\ IsIntLiteral(last.ss)) =>
    /\ out.tag = "ok"
    /\ result = NoErr
    /\ ss = << >>
    /\ Len(ds) = Len(last.ds) + 1
    /\ Last(ds).t = "Int"

(***************************************************************************)
(* Properties of the failures of do_action (specification SpecAct).        *)
(***************************************************************************)
\* The value stack d with its top n elements taken off has type t on top.
TopIs(d, n, t) == Len(d) > n /\ d[Len(d) - n].t = t

\* The call broke an invariant the tables are to keep: action 3 without a
\* List under the value popped, action 4 without a String key or without
\* an Object under it, too few elements for either, or an action
\* identifier outside 1..14.
InvariantBroken ==
  \/ last.action = 3 /\ ~TopIs(last.ds, 1, "List")
  \/ last.action = 4 /\ ~(TopIs(last.ds, 1, "String") /\ TopIs(last.ds, 2, "Object"))
  \/ last.action \notin 1..14

\* C18: a broken invariant makes the call panic: it returns neither Syntax
\* nor any other error, and the errors do_action does return are the
\* InvalidEscape of actions 13 and 14.
C18_PanicNotError ==
  pc = "acted" =>
    /\ InvariantBroken =>
         (out.tag = "panic" /\ out.err = NoErr /\ result = PanicResult)
    /\ out.tag = "err" =>
         (last.action \in {13, 14} /\ out.err.kind = "InvalidEscape")

\* Action 4 found a key that is no String over an Object, and panicked.
C18_Witness ==
  /\ pc = "acted"
  /\ last.action = 4
  /\ Len(last.ds) = 3
  /\ last.ds[1].t = "Object"
  /\ last.ds[2].t = "List"
  /\ out.tag = "panic"
  /\ result = PanicResult

(***************************************************************************)
(* Properties of the classification of bytes (specification Spec).         *)
(***************************************************************************)
\* The category the tables give byte b: that of 0x7E for every byte above.
CategoryOf(b) == IF b <= 126 THEN CATCODE[b] ELSE CATCODE[126]

\* C19: the category of input byte b is CATCODE[b] for b <= 0x7E and
\* CATCODE[0x7E] for b > 0x7E: every driver call parse makes for a byte
\* carries that category, and for each of the 256 bytes the lookup stays
\* within the table's indices 0..0x7E.
C19_ByteCategory ==
  /\ \A i \in 1..Len(calls) :
       ~calls[i].end => (calls[i].ch = inp[i] /\ calls[i].cat = CategoryOf(inp[i]))
  /\ \A b \in 0..255 : CatOf(b) = CategoryOf(b)
  /\ DOMAIN CATCODE = 0..126

\* A document with a byte above 0x7E inside a string was decoded.
C19_Witness ==
  /\ pc = "done"
  /\ result.kind = "Ok"
  /\ \E i \in 1..Len(inp) :
       /\ inp[i] > 126
       /\ calls[i].cat = CATCODE[126]
       /\ calls[i].ret = calls[i].start

(***************************************************************************)
(* Properties of the control stack within one call of parse_ch             *)
(* (specification SpecCh).                                                 *)
(***************************************************************************)
\* The latest lookup read a reduction that does not push, and its action,
\* if any, succeeded.
PureReduction ==
  /\ LastActed
  /\ LastEntry % 256 = 255
  /\ LastEntry \div 256 < 128

\* C20: within one driver call each reduction that does not push (control
\* half 0xFF, action half below 0x80) lowers the depth of the control
\* stack by exactly 1, so that no more of them succeed than the control
\* stack had entries at the start plus the entries pushed during the call;
\* such a reduction met with an empty control stack ends the run in a
\* panic, not in Syntax or another error.
C20_ReductionDepth ==
  /\ PureReduction =>
       IF last.stack = << >>
         THEN out.kind = "panic" /\ out.err = NoErr /\ result = PanicResult
         ELSE /\ out.kind = "cont"
              /\ Len(stack) = Len(last.stack) - 1
              /\ stack = Front(last.stack)
  /\ pc \in {"lookup", "returned", "done"} =>
       calls[1].reduced <= calls[1].depth + calls[1].pushed

\* An action ran, then the reduction found the control stack empty.
C20_Witness ==
  /\ PureReduction
  /\ LastEntry \div 256 # 0
  /\ ds # last.ds
  /\ last.stack = << >>
  /\ out.kind = "panic"
  /\ result = PanicResult

====
